---- MODULE Spec2Model ----
(***************************************************************************)
(* Fracture_Vision_2.0: the fracture-geometry-to-mesh-deformation pipeline *)
(* of backend_v2 (utils/geometry.py, utils/yolo_detector.py, app.py).      *)
(*                                                                         *)
(* Numbers are exact: image and landmark coordinates are integers, a split *)
(* ratio is a fraction [n, d] with d > 0, and a deformed vertex is a       *)
(* fraction <<X, Y, Z, D>> (the point (X/D, Y/D, Z/D)) in lowest terms.    *)
(* Bend angles are multiples of 90 degrees, for which the rotation matrix  *)
(* has integer entries.                                                    *)
(***************************************************************************)
EXTENDS Integers, Sequences, FiniteSets, TLC

\* ---------------------------------------------------------------- bounds
MaxVerts == 3
MaxTris == 1
RatioDen == 2
MaxSessions == 1

\* Python's None
None == [none |-> TRUE]

\* ------------------------------------------------------------ arithmetic
Abs(a) == IF a < 0 THEN -a ELSE a

RECURSIVE GcdNat(_, _)
GcdNat(a, b) == IF b = 0 THEN a ELSE GcdNat(b, a % b)

Gcd(a, b) == GcdNat(Abs(a), Abs(b))

RECURSIVE SeqSum(_)
SeqSum(s) == IF s = <<>> THEN 0 ELSE Head(s) + SeqSum(Tail(s))

SeqMin(s) == CHOOSE m \in {s[i] : i \in DOMAIN s} : \A i \in DOMAIN s : m <= s[i]
SeqMax(s) == CHOOSE m \in {s[i] : i \in DOMAIN s} : \A i \in DOMAIN s : m >= s[i]

\* the point (X/D, Y/D, Z/D) in lowest terms, D > 0
Frac(X, Y, Z, D) ==
    LET g == Gcd(Gcd(Gcd(D, X), Y), Z)
    IN  <<X \div g, Y \div g, Z \div g, D \div g>>

\* cos and sin of a multiple of 90 degrees
Cos(a) == CASE a % 360 = 0 -> 1 [] a % 360 = 180 -> -1 [] OTHER -> 0
Sin(a) == CASE a % 360 = 90 -> 1 [] a % 360 = 270 -> -1 [] OTHER -> 0

\* ------------------------------------------------- geometry.py: the mesh
\* np.where(mask)[0]: the 0-based indices where mask holds, ascending
RECURSIVE where(_, _)
where(mask, i) ==
    IF i > Len(mask) THEN <<>>
    ELSE (IF mask[i] THEN <<i - 1>> ELSE <<>>) \o where(mask, i + 1)

\* mutant: the old index kept for a selected vertex
index_map_identity(mask) ==
    LET indices == where(mask, 1)
    IN  [i \in 0..(Len(mask) - 1) |->
            IF \E k \in DOMAIN indices : indices[k] = i THEN i ELSE -1]

\* index_map: old index -> new compact index, -1 for a vertex not selected
index_map(mask) ==
    LET indices == where(mask, 1)
    IN  [i \in 0..(Len(mask) - 1) |->
            IF \E k \in DOMAIN indices : indices[k] = i
            THEN (CHOOSE k \in DOMAIN indices : indices[k] = i) - 1
            ELSE -1]

\* mutant: np.any in place of np.all
tri_mask_any(mask, tri) == \E c \in 1..3 : mask[tri[c] + 1]

\* np.all(mask[triangles], axis=1) for one triangle
tri_mask(mask, tri) == \A c \in 1..3 : mask[tri[c] + 1]

\* mutant: the plane measured down from max_y
mid_y_from_max(vertices, split_ratio) ==
    LET ys == [i \in DOMAIN vertices |-> vertices[i][2]]
    IN  split_ratio.d * SeqMax(ys) - (SeqMax(ys) - SeqMin(ys)) * split_ratio.n

\* d * mid_y, for mid_y = min_y + (max_y - min_y) * split_ratio
mid_y(vertices, split_ratio) ==
    LET ys == [i \in DOMAIN vertices |-> vertices[i][2]]
    IN  split_ratio.d * SeqMin(ys) + (SeqMax(ys) - SeqMin(ys)) * split_ratio.n

\* mutant: > in place of >=
top_mask_strict(vertices, split_ratio) ==
    LET mid == mid_y(vertices, split_ratio)
    IN  [i \in DOMAIN vertices |-> split_ratio.d * vertices[i][2] > mid]

\* vertices[:, 1] >= mid_y
top_mask(vertices, split_ratio) ==
    LET mid == mid_y(vertices, split_ratio)
    IN  [i \in DOMAIN vertices |-> split_ratio.d * vertices[i][2] >= mid]

\* mutant: vertices[:, 1] <= mid_y in place of ~top_mask
bottom_mask_inclusive(vertices, split_ratio) ==
    LET mid == mid_y(vertices, split_ratio)
    IN  [i \in DOMAIN vertices |-> split_ratio.d * vertices[i][2] <= mid]

\* ~top_mask
bottom_mask(vertices, split_ratio) ==
    LET top == top_mask(vertices, split_ratio)
    IN  [i \in DOMAIN vertices |-> ~top[i]]

\* mutant: R @ (v - center), the center not added back
rotated_no_recenter(v, angle_deg, Sx, m, midN, d) ==
    LET D  == m * d
        rx == D * v[1] - d * Sx
        ry == D * v[2] - m * midN
    IN  Frac(Cos(angle_deg) * rx - Sin(angle_deg) * ry,
             Sin(angle_deg) * rx + Cos(angle_deg) * ry,
             D * v[3],
             D)

\* R @ (v - center) + center for R the rotation by angle_deg about the z axis,
\* center = (Sx / m, midN / d, mean z)
rotated(v, angle_deg, Sx, m, midN, d) ==
    LET D  == m * d
        rx == D * v[1] - d * Sx
        ry == D * v[2] - m * midN
    IN  Frac(d * Sx + Cos(angle_deg) * rx - Sin(angle_deg) * ry,
             m * midN + Sin(angle_deg) * rx + Cos(angle_deg) * ry,
             D * v[3],
             D)

rotate_part(mesh, mask, angle_deg, midN, d) ==
    LET indices      == where(mask, 1)
        sub_vertices == [k \in DOMAIN indices |-> mesh.vertices[indices[k] + 1]]
        imap         == index_map(mask)
        sub_tris     == SelectSeq(mesh.triangles, LAMBDA t : tri_mask(mask, t))
        mapped       == [k \in DOMAIN sub_tris |->
                            <<imap[sub_tris[k][1]], imap[sub_tris[k][2]],
                              imap[sub_tris[k][3]]>>]
        Sx           == SeqSum([k \in DOMAIN sub_vertices |-> sub_vertices[k][1]])
        m            == Len(sub_vertices)
    IN  [vertices  |-> [k \in DOMAIN sub_vertices |->
                           rotated(sub_vertices[k], angle_deg, Sx, m, midN, d)],
         triangles |-> mapped]

\* open3d TriangleMesh.__add__: the vertices of a then of b, the triangles of
\* a then those of b offset by the number of vertices of a
MeshAdd(a, b) ==
    [vertices  |-> a.vertices \o b.vertices,
     triangles |-> a.triangles \o
                   [k \in DOMAIN b.triangles |->
                       <<b.triangles[k][1] + Len(a.vertices),
                         b.triangles[k][2] + Len(a.vertices),
                         b.triangles[k][3] + Len(a.vertices)>>]]

EmptyMesh == [vertices |-> <<>>, triangles |-> <<>>]

\* mutant: the rotated vertices written back into the argument mesh
create_angle_mesh_in_place(mesh, angles, split_ratio) ==
    IF Len(mesh.vertices) = 0
    THEN [raised |-> TRUE, mid_y |-> None, top_mask |-> None, bottom_mask |-> None,
          top |-> None, bottom |-> None, mesh |-> None, input |-> mesh]
    ELSE LET midN   == mid_y(mesh.vertices, split_ratio)
             tmask  == top_mask(mesh.vertices, split_ratio)
             bmask  == bottom_mask(mesh.vertices, split_ratio)
             top    == rotate_part(mesh, tmask, angles[1], midN, split_ratio.d)
             bottom == rotate_part(mesh, bmask, angles[2], midN, split_ratio.d)
         IN  [raised |-> FALSE, mid_y |-> [n |-> midN, d |-> split_ratio.d],
              top_mask |-> tmask, bottom_mask |-> bmask,
              top |-> top, bottom |-> bottom,
              mesh |-> MeshAdd(top, bottom),
              input |-> [mesh EXCEPT !.vertices = top.vertices \o bottom.vertices]]

\* The locals and the outcome of one call: mid_y (times the ratio's d), the
\* two masks, the sub-meshes top and bottom, the returned mesh, and input, the
\* argument object as the call leaves it (the code reads it through
\* np.asarray and writes only to copies).
\* vertices[:, 1].min() raises ValueError on a mesh without vertices.
create_angle_mesh(mesh, angles, split_ratio) ==
    IF Len(mesh.vertices) = 0
    THEN [raised |-> TRUE, mid_y |-> None, top_mask |-> None, bottom_mask |-> None,
          top |-> None, bottom |-> None, mesh |-> None, input |-> mesh]
    ELSE LET midN   == mid_y(mesh.vertices, split_ratio)
             tmask  == top_mask(mesh.vertices, split_ratio)
             bmask  == bottom_mask(mesh.vertices, split_ratio)
             top    == rotate_part(mesh, tmask, angles[1], midN, split_ratio.d)
             bottom == rotate_part(mesh, bmask, angles[2], midN, split_ratio.d)
         IN  [raised |-> FALSE, mid_y |-> [n |-> midN, d |-> split_ratio.d],
              top_mask |-> tmask, bottom_mask |-> bmask,
              top |-> top, bottom |-> bottom,
              mesh |-> MeshAdd(top, bottom), input |-> mesh]

\* ------------------------------------------- geometry.py: angle and ratio
\* math.degrees(math.atan2(dy, dx)) % 360, for the directions whose angle is
\* a whole number of degrees: the axes, the diagonals and the zero vector
atan2_deg(dy, dx) ==
    CASE dy = 0 /\ dx >= 0          -> 0
      [] dy > 0 /\ dx = dy          -> 45
      [] dy > 0 /\ dx = 0           -> 90
      [] dy > 0 /\ dx = -dy         -> 135
      [] dy = 0 /\ dx < 0           -> 180
      [] dy < 0 /\ dx = dy          -> 225
      [] dy < 0 /\ dx = 0           -> 270
      [] dy < 0 /\ dx = -dy         -> 315

\* mutant: the last branch mirrored, angle_from_neg_x - 360
fold_signed(angle_from_neg_x) ==
    IF angle_from_neg_x <= 90 THEN -(90 - angle_from_neg_x)
    ELSE IF angle_from_neg_x <= 180 THEN angle_from_neg_x - 90
    ELSE IF angle_from_neg_x <= 270 THEN 270 - angle_from_neg_x
    ELSE angle_from_neg_x - 360

\* mutant: the second branch doubled
fold_steep(angle_from_neg_x) ==
    IF angle_from_neg_x <= 90 THEN -(90 - angle_from_neg_x)
    ELSE IF angle_from_neg_x <= 180 THEN 2 * (angle_from_neg_x - 90)
    ELSE IF angle_from_neg_x <= 270 THEN 270 - angle_from_neg_x
    ELSE 360 - angle_from_neg_x

\* mutant: the third branch negated
fold_third_negated(angle_from_neg_x) ==
    IF angle_from_neg_x <= 90 THEN -(90 - angle_from_neg_x)
    ELSE IF angle_from_neg_x <= 180 THEN angle_from_neg_x - 90
    ELSE IF angle_from_neg_x <= 270 THEN angle_from_neg_x - 270
    ELSE 360 - angle_from_neg_x

\* the four branches on angle_from_neg_x
fold(angle_from_neg_x) ==
    IF angle_from_neg_x <= 90 THEN -(90 - angle_from_neg_x)
    ELSE IF angle_from_neg_x <= 180 THEN angle_from_neg_x - 90
    ELSE IF angle_from_neg_x <= 270 THEN 270 - angle_from_neg_x
    ELSE 360 - angle_from_neg_x

\* the function from math.degrees(angle_rad) on
angle_from_degrees(degrees) ==
    LET angle_deg == degrees % 360
        angle_from_neg_x == (angle_deg - 180) % 360
    IN  fold(angle_from_neg_x)

angle_from_negative_x(p1, p2, center) ==
    LET x1 == p1[1] - center[1]
        y1 == p1[2] - center[2]
        x2 == p2[1] - center[1]
        y2 == p2[2] - center[2]
    IN  angle_from_degrees(atan2_deg(y2 - y1, x2 - x1))

\* mutant: y_top and y_bottom not swapped
get_split_ratio_no_swap(point_top, point_bottom, split_point) ==
    LET y_top    == point_top[2]
        y_bottom == point_bottom[2]
        total_height == y_top - y_bottom
    IN  IF total_height # 0
        THEN [n |-> total_height - (y_top - split_point[2]), d |-> total_height]
        ELSE [n |-> 0, d |-> 1]

\* mutant: y_split - y_top in place of y_top - y_split
get_split_ratio_sign(point_top, point_bottom, split_point) ==
    LET y_top    == IF point_top[2] < point_bottom[2] THEN point_bottom[2]
                    ELSE point_top[2]
        y_bottom == IF point_top[2] < point_bottom[2] THEN point_top[2]
                    ELSE point_bottom[2]
        total_height == y_top - y_bottom
    IN  IF total_height # 0
        THEN [n |-> total_height - (split_point[2] - y_top), d |-> total_height]
        ELSE [n |-> 0, d |-> 1]

\* mutant: the division made whatever total_height is
get_split_ratio_unguarded(point_top, point_bottom, split_point) ==
    LET y_top    == IF point_top[2] < point_bottom[2] THEN point_bottom[2]
                    ELSE point_top[2]
        y_bottom == IF point_top[2] < point_bottom[2] THEN point_top[2]
                    ELSE point_bottom[2]
        total_height == y_top - y_bottom
    IN  [n |-> total_height - (y_top - split_point[2]), d |-> total_height]

\* 1 - (y_top - y_split) / total_height as the fraction n / d, or 0
get_split_ratio(point_top, point_bottom, split_point) ==
    LET y_top    == IF point_top[2] < point_bottom[2] THEN point_bottom[2]
                    ELSE point_top[2]
        y_bottom == IF point_top[2] < point_bottom[2] THEN point_top[2]
                    ELSE point_bottom[2]
        total_height == y_top - y_bottom
    IN  IF total_height # 0
        THEN [n |-> total_height - (y_top - split_point[2]), d |-> total_height]
        ELSE [n |-> 0, d |-> 1]

get_relative_position(head, tail, fracture) == get_split_ratio(head, tail, fracture)

\* ------------------------------------------------------ app.py: severity
\* mutant: >= 15 in place of > 15
calculate_severity_inclusive(top_angle, bottom_angle) ==
    LET max_angle == IF Abs(top_angle) >= Abs(bottom_angle) THEN Abs(top_angle)
                     ELSE Abs(bottom_angle)
    IN  IF max_angle >= 15 THEN "severe"
        ELSE IF max_angle > 8 THEN "moderate"
        ELSE "mild"

calculate_severity(top_angle, bottom_angle) ==
    LET max_angle == IF Abs(top_angle) >= Abs(bottom_angle) THEN Abs(top_angle)
                     ELSE Abs(bottom_angle)
    IN  IF max_angle > 15 THEN "severe"
        ELSE IF max_angle > 8 THEN "moderate"
        ELSE "mild"

\* ------------------------------ backend/deformed.py: the same helpers
\* mutant: < 270 in place of <= 270
deformed_angle_strict(p1, p2, center) ==
    LET x1 == p1[1] - center[1]
        y1 == p1[2] - center[2]
        x2 == p2[1] - center[1]
        y2 == p2[2] - center[2]
        angle_deg == atan2_deg(y2 - y1, x2 - x1) % 360
        angle_from_neg_x == (angle_deg - 180) % 360
    IN  IF angle_from_neg_x <= 90 THEN -(90 - angle_from_neg_x)
        ELSE IF angle_from_neg_x <= 180 THEN angle_from_neg_x - 90
        ELSE IF angle_from_neg_x < 270 THEN 270 - angle_from_neg_x
        ELSE 360 - angle_from_neg_x

deformed_angle_from_negative_x(p1, p2, center) ==
    LET x1 == p1[1] - center[1]
        y1 == p1[2] - center[2]
        x2 == p2[1] - center[1]
        y2 == p2[2] - center[2]
        angle_deg == atan2_deg(y2 - y1, x2 - x1) % 360
        angle_from_neg_x == (angle_deg - 180) % 360
    IN  IF angle_from_neg_x <= 90 THEN -(90 - angle_from_neg_x)
        ELSE IF angle_from_neg_x <= 180 THEN angle_from_neg_x - 90
        ELSE IF angle_from_neg_x <= 270 THEN 270 - angle_from_neg_x
        ELSE 360 - angle_from_neg_x

deformed_get_split_ratio(point_top, point_bottom, split_point) ==
    LET y_top    == IF point_top[2] < point_bottom[2] THEN point_bottom[2]
                    ELSE point_top[2]
        y_bottom == IF point_top[2] < point_bottom[2] THEN point_top[2]
                    ELSE point_bottom[2]
        total_height == y_top - y_bottom
    IN  IF total_height # 0
        THEN [n |-> total_height - (y_top - split_point[2]), d |-> total_height]
        ELSE [n |-> 0, d |-> 1]

\* mutant: the rule on top_angle alone
deformed_severity_top_only(top_angle, bottom_angle) ==
    IF Abs(top_angle) > 15 THEN "severe"
    ELSE IF Abs(top_angle) > 8 THEN "moderate"
    ELSE "mild"

\* the inline rule of process_landmarks
deformed_severity(top_angle, bottom_angle) ==
    IF Abs(top_angle) > 15 \/ Abs(bottom_angle) > 15 THEN "severe"
    ELSE IF Abs(top_angle) > 8 \/ Abs(bottom_angle) > 8 THEN "moderate"
    ELSE "mild"

\* ------------------------- Rounak Files/final_manager_code: the helpers
final_manager_get_relative_position(head, tail, fracture) ==
    LET y1 == IF head[2] < tail[2] THEN tail[2] ELSE head[2]
        y2 == IF head[2] < tail[2] THEN head[2] ELSE tail[2]
        h  == y1 - y2
    IN  IF h # 0 THEN [n |-> h - (y1 - fracture[2]), d |-> h]
        ELSE [n |-> 0, d |-> 1]

final_manager_angle_from_negative_x(p1, p2, center) ==
    LET x1 == p1[1] - center[1]
        y1 == p1[2] - center[2]
        x2 == p2[1] - center[1]
        y2 == p2[2] - center[2]
        angle == ((atan2_deg(y2 - y1, x2 - x1) % 360) - 180) % 360
    IN  IF angle <= 90 THEN -(90 - angle)
        ELSE IF angle <= 180 THEN angle - 90
        ELSE IF angle <= 270 THEN 270 - angle
        ELSE 360 - angle

\* ------------------------------------ yolo_detector.py: FractureDetector
\* int(a / b) for b > 0: the quotient truncated toward zero
TruncDiv(a, b) == IF a >= 0 THEN a \div b ELSE -((-a) \div b)

EmptyDict == [k \in {} |-> None]

Put(dict, key, value) ==
    [k \in DOMAIN dict \cup {key} |-> IF k = key THEN value ELSE dict[k]]

\* (int(x_center - cx), int((h // 2) - y_center)) of a box <<x1, y1, x2, y2>>
box_point(box, cx, h) ==
    <<TruncDiv((box[1] + box[3]) - 2 * cx, 2),
      TruncDiv(2 * (h \div 2) - (box[2] + box[4]), 2)>>

\* mutant: x_center <= cx in place of x_center < cx
box_key_inclusive(box, cx) ==
    IF box[1] + box[3] <= 2 * cx THEN "radius_break" ELSE "ulna_break"

box_key(box, cx) == IF box[1] + box[3] < 2 * cx THEN "radius_break" ELSE "ulna_break"

\* the loop over several boxes: the first box of a side wins
RECURSIVE detect_loop(_, _, _, _)
detect_loop(boxes, cx, h, Xray_breaks) ==
    IF boxes = <<>> THEN Xray_breaks
    ELSE LET key == box_key(Head(boxes), cx)
         IN  detect_loop(Tail(boxes), cx, h,
                 IF key \in DOMAIN Xray_breaks THEN Xray_breaks
                 ELSE Put(Xray_breaks, key, box_point(Head(boxes), cx, h)))

\* final_manager_code, main: the loop over res.boxes, the last box of a side
\* wins; the point is (int(xc - cx), int(cy - yc))
RECURSIVE final_manager_breaks(_, _, _, _)
final_manager_breaks(boxes, cx, cy, breaks) ==
    IF boxes = <<>> THEN breaks
    ELSE LET b  == Head(boxes)
             pt == <<TruncDiv((b[1] + b[3]) - 2 * cx, 2),
                     TruncDiv(2 * cy - (b[2] + b[4]), 2)>>
         IN  final_manager_breaks(Tail(boxes), cx, cy,
                 IF b[1] + b[3] < 2 * cx THEN Put(breaks, "radius_break", pt)
                 ELSE Put(breaks, "ulna_break", pt))

_fallback_detection ==
    Put(Put(EmptyDict, "ulna_break", <<50, 100>>), "radius_break", <<-30, 80>>)

\* detector.model is None when the weights were not loaded; results is what
\* the network returns for the image: [boxes |-> ...], or [raises |-> TRUE]
detect_fractures(detector, results, image, center) ==
    IF detector.model = None THEN _fallback_detection
    ELSE IF results = [raises |-> TRUE] THEN _fallback_detection
    ELSE LET boxes == results.boxes IN
    IF Len(boxes) = 0 THEN EmptyDict
    ELSE IF Len(boxes) = 1
         THEN Put(EmptyDict, box_key(boxes[1], center[1]),
                  box_point(boxes[1], center[1], image.h))
    ELSE detect_loop(boxes, center[1], image.h, EmptyDict)

\* --------------------------------------------------- app.py: the sessions
\* a key the session dict does not hold
Absent == [absent |-> TRUE]

\* dict.get(key): None for a key the session does not hold
Get(session, key) == IF session[key] = Absent THEN None ELSE session[key]

\* sessions[session_id] = {} of get_fractured_model
EmptySession ==
    [xray_image |-> Absent, model_mesh |-> Absent, original_model_path |-> Absent,
     landmarks |-> Absent, fractures |-> Absent, model_path |-> Absent,
     fractured_mesh |-> Absent]

\* lm.label.lower().replace(" ", "_")
label_key(label) ==
    CASE label \in {"ulna_head", "Ulna Head"}     -> "ulna_head"
      [] label \in {"ulna_tail", "Ulna Tail"}     -> "ulna_tail"
      [] label \in {"radius_head", "Radius Head"} -> "radius_head"
      [] label \in {"radius_tail", "Radius Tail"} -> "radius_tail"

\* xray_landmark[label_key] = (int(lm.x - cx), int(cy - lm.y)), in list order
RECURSIVE centered(_, _, _, _)
centered(landmarks, cx, cy, xray_landmark) ==
    IF landmarks = <<>> THEN xray_landmark
    ELSE LET lm == Head(landmarks)
         IN  centered(Tail(landmarks), cx, cy,
                      Put(xray_landmark, label_key(lm.label), <<lm.x - cx, cy - lm.y>>))

has_bone(bone, xray_breaks, xray_landmark) ==
    /\ (IF bone = "ulna" THEN "ulna_break" ELSE "radius_break") \in DOMAIN xray_breaks
    /\ (IF bone = "ulna" THEN "ulna_head" ELSE "radius_head") \in DOMAIN xray_landmark
    /\ (IF bone = "ulna" THEN "ulna_tail" ELSE "radius_tail") \in DOMAIN xray_landmark

\* the entry appended to fracture_results for one bone
fracture_result(bone, xray_breaks, xray_landmark) ==
    LET head == xray_landmark[IF bone = "ulna" THEN "ulna_head" ELSE "radius_head"]
        tail == xray_landmark[IF bone = "ulna" THEN "ulna_tail" ELSE "radius_tail"]
        brk  == xray_breaks[IF bone = "ulna" THEN "ulna_break" ELSE "radius_break"]
        top_angle    == angle_from_negative_x(head, brk, <<0, 0>>)
        bottom_angle == angle_from_negative_x(brk, tail, <<0, 0>>)
    IN  [bone |-> bone, damage |-> "crack",
         location |-> get_relative_position(head, tail, brk),
         top_angle |-> top_angle, bottom_angle |-> bottom_angle,
         severity |-> calculate_severity(top_angle, bottom_angle)]

\* The deformation of one bone. acc is the request so far: the session,
\* fracture_results, and deformed, the bones whose "Mesh deformation applied"
\* was reached, in order. c is the outcome of the call in
\* try: session["fractured_mesh"] = create_angle_mesh(session["model_mesh"], ...)
\* except: print. The session's model_mesh is the object handed to the call.
store_deformation(acc, bone, c) ==
    IF c.raised
    THEN [acc EXCEPT !.session = [@ EXCEPT !.model_mesh = c.input]]
    ELSE [acc EXCEPT !.session = [@ EXCEPT !.model_mesh = c.input,
                                           !.fractured_mesh = c.mesh],
                     !.deformed = Append(@, bone)]

apply_deformation(acc, bone, fr) ==
    store_deformation(acc, bone,
        create_angle_mesh(acc.session.model_mesh,
                          <<fr.top_angle, fr.bottom_angle>>, fr.location))

\* the condition under which a bone's deformation is attempted: a loaded
\* mesh, and for the radius also "fractured_mesh" not in session
may_deform(bone, session) ==
    /\ Get(session, "model_mesh") # None
    /\ bone = "radius" => session.fractured_mesh = Absent

\* fracture_results.append(...), then the deformation
record_fracture(acc, bone, fr) ==
    IF may_deform(bone, acc.session)
    THEN apply_deformation([acc EXCEPT !.fractures = Append(@, fr)], bone, fr)
    ELSE [acc EXCEPT !.fractures = Append(@, fr)]

\* mutant: a bone without its data empties fracture_results
process_bone_drops(acc, bone, xray_breaks, xray_landmark) ==
    IF has_bone(bone, xray_breaks, xray_landmark)
    THEN record_fracture(acc, bone, fracture_result(bone, xray_breaks, xray_landmark))
    ELSE [acc EXCEPT !.fractures = <<>>]

\* the branch of one bone
process_bone(acc, bone, xray_breaks, xray_landmark) ==
    IF has_bone(bone, xray_breaks, xray_landmark)
    THEN record_fracture(acc, bone, fracture_result(bone, xray_breaks, xray_landmark))
    ELSE acc

\* the ulna branch, then the radius branch
process_bones(session, xray_breaks, xray_landmark) ==
    process_bone(
        process_bone([session   |-> [session EXCEPT !.landmarks = xray_landmark,
                                                    !.fractures = xray_breaks],
                      fractures |-> <<>>, deformed |-> <<>>],
                     "ulna", xray_breaks, xray_landmark),
        "radius", xray_breaks, xray_landmark)

\* mutant: the fallback points whatever the session holds
xray_breaks_always_fallback(session) == _fallback_detection

\* session.get("fractures", {}), replaced by the fallback when empty
xray_breaks_of(session) ==
    LET stored == Get(session, "fractures")
    IN  IF stored = None \/ stored = EmptyDict THEN _fallback_detection ELSE stored

\* The body of process_landmarks for a session that holds an image: the
\* session as the call leaves it, fracture_results, and deformed.
process_landmarks(session, landmarks) ==
    process_bones(session, xray_breaks_of(session),
                  centered(landmarks, session.xray_image.w \div 2,
                           session.xray_image.h \div 2, EmptyDict))

\* ------------------------------------------- utils/medical_rag.py
\* What the language model is for one request: groq.api_key is whether
\* GROQ_API_KEY is set; groq.raises, that ChatGroq or llm.invoke raises;
\* groq.text, the reply.
\* extract_json: the text from the first { to the last }, ValueError when
\* the reply has neither; json.loads of it, the dict the reply spells
parsed_json(text) ==
    CASE text = "I cannot help with that." -> [raises |-> TRUE]
      [] text = "{\"most_likely_damaged_structures\": [\"ulnar nerve\"]}" ->
             [most_likely_damaged_structures |-> <<"ulnar nerve">>]

analyze_fracture_risk(fracture_data, groq) ==
    IF fracture_data = <<>> THEN None
    ELSE IF ~groq.api_key THEN None
    ELSE IF "raises" \in DOMAIN groq THEN None
    ELSE IF parsed_json(groq.text) = [raises |-> TRUE] THEN None
    ELSE parsed_json(groq.text)

get_medical_analysis(fracture_results, groq) ==
    analyze_fracture_risk(fracture_results, groq)

\* ------------------------------------------ app.py: the response bodies
\* fracture_detector and fracture_detector.is_loaded
is_loaded(detector) == detector # None /\ detector.model # None

detected_bones(fracture_results) ==
    [k \in DOMAIN fracture_results |-> fracture_results[k].bone]

\* mutant: the response left empty when there is no medical analysis
response_needs_analysis(fracture_results, medical_analysis, detector) ==
    IF medical_analysis # None
    THEN [fractures |-> fracture_results,
          confidence |-> IF is_loaded(detector) THEN 92 ELSE 75,
          detected_bones |-> detected_bones(fracture_results),
          medical_analysis |-> medical_analysis]
    ELSE [fractures |-> <<>>, confidence |-> 0, detected_bones |-> <<>>]

\* the response of process_landmarks, confidence in hundredths;
\* medical_analysis is set only when the analysis is there
response(fracture_results, medical_analysis, detector) ==
    IF medical_analysis # None
    THEN [fractures |-> fracture_results,
          confidence |-> IF is_loaded(detector) THEN 92 ELSE 75,
          detected_bones |-> detected_bones(fracture_results),
          medical_analysis |-> medical_analysis]
    ELSE [fractures |-> fracture_results,
          confidence |-> IF is_loaded(detector) THEN 92 ELSE 75,
          detected_bones |-> detected_bones(fracture_results)]

\* len(session.get("fractures", {})) raises TypeError for a stored None
len_raises(session) == session.fractures = None

\* len(session.get("fractures", {})) where it does not raise
fracture_count(session) ==
    IF session.fractures = Absent THEN 0
    ELSE Cardinality(DOMAIN session.fractures)

\* mutant: a session without an X-ray image answered as unknown
get_session_needs_xray(all_sessions, session_id) ==
    IF session_id \notin DOMAIN all_sessions
           \/ Get(all_sessions[session_id], "xray_image") = None
    THEN [status |-> 404]
    ELSE [status |-> 200,
          has_xray |-> TRUE,
          has_model |-> Get(all_sessions[session_id], "model_mesh") # None,
          has_landmarks |-> Get(all_sessions[session_id], "landmarks") # None,
          has_fractures |-> FALSE,
          fracture_count |-> 0]

\* GET /session/{session_id}: the status and the body
get_session(all_sessions, session_id) ==
    IF session_id \notin DOMAIN all_sessions THEN [status |-> 404]
    ELSE IF len_raises(all_sessions[session_id]) THEN [status |-> 500]
    ELSE [status |-> 200,
          has_xray |-> Get(all_sessions[session_id], "xray_image") # None,
          has_model |-> Get(all_sessions[session_id], "model_mesh") # None,
          has_landmarks |-> Get(all_sessions[session_id], "landmarks") # None,
          has_fractures |-> /\ Get(all_sessions[session_id], "fractures") # None
                            /\ fracture_count(all_sessions[session_id]) > 0,
          fracture_count |-> fracture_count(all_sessions[session_id])]

\* ------------------------------------------------------- bounded inputs
\* bend angles (top, bottom)
AnglePairs == {<<0, 0>>, <<90, -90>>, <<-90, 0>>, <<0, 90>>}

\* split ratios k / RatioDen from below 0 to above 1
Ratios == {[n |-> k, d |-> RatioDen] : k \in (-1)..(RatioDen + 1)}

\* a mesh of n vertices: vertex i at x = i % 2, z = 1 and a height y in
\* Heights; triangles <<i, j, k>> with i <= j < k < n
Heights == 0..2

VertexSeqs(n) == {[i \in 1..n |-> <<i % 2, ys[i], 1>>] : ys \in [1..n -> Heights]}

TrisOf(n) == {t \in (0..(n - 1)) \X (0..(n - 1)) \X (0..(n - 1)) :
                 t[1] <= t[2] /\ t[2] < t[3]}

SeqsUpTo(S, n) == UNION {[1..k -> S] : k \in 0..n}

Meshes == UNION {{[vertices |-> vs, triangles |-> ts] :
                     vs \in VertexSeqs(n), ts \in SeqsUpTo(TrisOf(n), MaxTris)} :
                 n \in 0..MaxVerts}

\* the X-ray image (its size), and what the network finds in it
Images == {[w |-> 301, h |-> 401]}

UlnaBox   == <<190, 90, 210, 110>>
UlnaBox2  == <<190, 130, 210, 150>>
RadiusBox == <<110, 110, 130, 130>>

YoloResults == {[boxes |-> <<>>], [boxes |-> <<UlnaBox>>], [boxes |-> <<RadiusBox>>],
                [boxes |-> <<RadiusBox, UlnaBox, UlnaBox2>>], [raises |-> TRUE]}

\* landmark lists as the frontend posts them, in image pixels
Lm(label, x, y) == [label |-> label, x |-> x, y |-> y]

LandmarkRequests ==
    {<<>>,
     <<Lm("Ulna Head", 200, 60), Lm("Ulna Tail", 200, 140)>>,
     <<Lm("radius_head", 80, 120), Lm("radius_tail", 120, 200)>>,
     <<Lm("Ulna Head", 200, 60), Lm("Ulna Tail", 200, 140),
       Lm("Radius Head", 80, 120), Lm("Radius Tail", 120, 200)>>,
     <<Lm("ulna_head", 200, 60), Lm("ulna_tail", 240, 100),
       Lm("radius_head", 120, 100), Lm("radius_tail", 120, 110)>>,
     <<Lm("Ulna Head", 200, 60), Lm("Radius Head", 80, 120),
       Lm("Radius Tail", 120, 200)>>,
     <<Lm("radius_head", 120, 100), Lm("radius_tail", 120, 110)>>}

\* the language model of one request: no key, a call that raises, a reply
\* without JSON, a reply with JSON
Groq == {[api_key |-> FALSE],
         [api_key |-> TRUE, raises |-> TRUE],
         [api_key |-> TRUE, text |-> "I cannot help with that."],
         [api_key |-> TRUE,
          text |-> "{\"most_likely_damaged_structures\": [\"ulnar nerve\"]}"]}

\* the default model file forearm_Bones.glb, and an uploaded model
DefaultMesh ==
    [vertices  |-> <<<<0, 0, 1>>, <<2, 0, 1>>, <<0, 2, 1>>, <<2, 4, 1>>>>,
     triangles |-> <<<<0, 1, 2>>, <<1, 2, 3>>>>]

UploadedMesh ==
    [vertices  |-> <<<<0, 0, 0>>, <<1, 1, 0>>, <<0, 2, 0>>>>,
     triangles |-> <<<<0, 1, 2>>>>]

\* TriangleMesh.create_cylinder(radius=1.0, height=4.0), left opaque
Cylinder == [cylinder |-> TRUE]

SessionIds == 0..MaxSessions

VARIABLES
    pc, mesh, angles, split_ratio, call,   \* one call of create_angle_mesh
    sessions,                              \* app.sessions: id n is "session_n"
    fracture_detector,                     \* app.fracture_detector
    default_model,                         \* forearm_Bones.glb: None, or its mesh
    temp_files,                            \* temp_model_<id>.glb: id -> mesh
    resp                                   \* the last request and its response

vars == <<pc, mesh, angles, split_ratio, call,
          sessions, fracture_detector, default_model, temp_files, resp>>

meshVars == <<pc, mesh, angles, split_ratio, call>>
appVars  == <<sessions, fracture_detector, default_model, temp_files, resp>>

\* session_id None is written NoId
NoId == -1

NoResp == [op |-> "none", session_id |-> NoId, status |-> 0, fractures |-> <<>>,
           deformed |-> <<>>, served |-> None, body |-> None, groq |-> None]

\* ------------------------------------------------- create_angle_mesh alone
MeshInit ==
    /\ pc = "call"
    /\ mesh \in Meshes
    /\ angles = None
    /\ split_ratio = None
    /\ call = None
    /\ sessions = EmptyDict
    /\ fracture_detector = None
    /\ default_model = None
    /\ temp_files = EmptyDict
    /\ resp = NoResp

\* one call create_angle_mesh(mesh, a, r)
CreateAngleMesh ==
    /\ pc = "call"
    /\ \E a \in AnglePairs, r \in Ratios :
          /\ angles' = a
          /\ split_ratio' = r
          /\ call' = create_angle_mesh(mesh, a, r)
    /\ mesh' = call'.input
    /\ pc' = "done"
    /\ UNCHANGED appVars

MeshNext == CreateAngleMesh

MeshSpec == MeshInit /\ [][MeshNext]_vars

\* ------------------------------------- the scalar functions, one call each
\* points of the X-ray plane, and the centers a call is given
MaxCoord == 1

Coords == (-MaxCoord)..MaxCoord

Points == Coords \X Coords

Centers == {<<0, 0>>, <<1, -2>>, <<150, 200>>}

\* p2 - p1 lies on an axis or a diagonal (or is the zero vector)
Compass(p1, p2) ==
    \/ p1[1] = p2[1]
    \/ p1[2] = p2[2]
    \/ Abs(p2[1] - p1[1]) = Abs(p2[2] - p1[2])

\* math.degrees(math.atan2(dy, dx)) in whole degrees
Degrees == (-179)..180

\* bend angles on both sides of the thresholds of calculate_severity
SeverityAngles == {-90, -16, -15, -14, -9, -8, -7, 0, 7, 8, 9, 14, 15, 16, 90}

\* boxes the network may return for an image 301 wide: centred right of,
\* left of, on, and half a pixel left of the centre column
MaxBoxes == 2

CentreBox == <<140, 90, 160, 110>>
HalfBox   == <<139, 90, 160, 111>>

DetBoxes == {UlnaBox, UlnaBox2, RadiusBox, CentreBox, HalfBox}

DetResults == {[boxes |-> bs] : bs \in SeqsUpTo(DetBoxes, MaxBoxes)}
                  \cup {[raises |-> TRUE]}

NoCall == [fn |-> "none"]

PureInit ==
    /\ pc = "pure"
    /\ mesh = None
    /\ angles = None
    /\ split_ratio = None
    /\ call = NoCall
    /\ sessions = EmptyDict
    /\ fracture_detector = None
    /\ default_model = None
    /\ temp_files = EmptyDict
    /\ resp = NoResp

\* angle_from_negative_x(p1, p2, center)
AngleFromNegativeX ==
    /\ pc = "pure"
    /\ \E p1 \in Points, p2 \in Points, center \in Centers :
          /\ Compass(p1, p2)
          /\ call' = [fn |-> "angle_from_negative_x", p1 |-> p1, p2 |-> p2,
                      center |-> center,
                      result |-> angle_from_negative_x(p1, p2, center)]
    /\ pc' = "returned"
    /\ UNCHANGED <<mesh, angles, split_ratio, appVars>>

\* angle_from_negative_x for points whose math.degrees(angle_rad) is degrees
AngleFromDegrees ==
    /\ pc = "pure"
    /\ \E degrees \in Degrees :
          call' = [fn |-> "angle_from_degrees", degrees |-> degrees,
                   result |-> angle_from_degrees(degrees)]
    /\ pc' = "returned"
    /\ UNCHANGED <<mesh, angles, split_ratio, appVars>>

\* get_relative_position(head, tail, fracture)
GetRelativePosition ==
    /\ pc = "pure"
    /\ \E head \in Points, tail \in Points, fracture \in Points :
          call' = [fn |-> "get_relative_position", head |-> head, tail |-> tail,
                   fracture |-> fracture,
                   result |-> get_relative_position(head, tail, fracture)]
    /\ pc' = "returned"
    /\ UNCHANGED <<mesh, angles, split_ratio, appVars>>

\* calculate_severity(top_angle, bottom_angle)
CalculateSeverity ==
    /\ pc = "pure"
    /\ \E top_angle \in SeverityAngles, bottom_angle \in SeverityAngles :
          call' = [fn |-> "calculate_severity", top_angle |-> top_angle,
                   bottom_angle |-> bottom_angle,
                   result |-> calculate_severity(top_angle, bottom_angle)]
    /\ pc' = "returned"
    /\ UNCHANGED <<mesh, angles, split_ratio, appVars>>

\* FractureDetector.detect_fractures(image, center), center as upload_xray
\* gives it
DetectFractures ==
    /\ pc = "pure"
    /\ \E detector \in {[model |-> None], [model |-> [weights |-> "best.pt"]]},
          results \in DetResults, image \in Images :
          call' = [fn |-> "detect_fractures", detector |-> detector,
                   results |-> results, image |-> image,
                   center |-> <<image.w \div 2, image.h \div 2>>,
                   result |-> detect_fractures(detector, results, image,
                                               <<image.w \div 2, image.h \div 2>>)]
    /\ pc' = "returned"
    /\ UNCHANGED <<mesh, angles, split_ratio, appVars>>

PureNext ==
    \/ AngleFromNegativeX
    \/ AngleFromDegrees
    \/ GetRelativePosition
    \/ CalculateSeverity
    \/ DetectFractures

PureSpec == PureInit /\ [][PureNext]_vars

\* ------------------------------------------------------------ the server
\* startup_event has run (or not: fracture_detector stays None)
Init ==
    /\ pc = "idle"
    /\ mesh = None
    /\ angles = None
    /\ split_ratio = None
    /\ call = None
    /\ sessions = EmptyDict
    /\ fracture_detector \in {None, [model |-> None], [model |-> [weights |-> "best.pt"]]}
    /\ default_model \in {None, DefaultMesh, EmptyMesh}
    /\ temp_files = EmptyDict
    /\ resp = NoResp

has_vertices(m) == Len(m.vertices) > 0

\* POST /upload/xray. An undecodable file (img None) raises HTTPException(400)
\* inside the try, which the handler's except turns into 500.
UploadXray ==
    /\ \/ Cardinality(DOMAIN sessions) < MaxSessions
       \/ Cardinality(DOMAIN sessions) \in DOMAIN sessions
    /\ \E img \in Images \cup {None}, boxes \in YoloResults :
          IF img = None
          THEN /\ resp' = [NoResp EXCEPT !.op = "upload_xray", !.status = 500]
               /\ UNCHANGED sessions
          ELSE LET center == <<img.w \div 2, img.h \div 2>>
                   session_id == Cardinality(DOMAIN sessions)
                   default_model_path == IF default_model = None THEN None
                                         ELSE [path |-> "forearm_Bones.glb"]
                   model_mesh == IF default_model # None /\ has_vertices(default_model)
                                 THEN default_model ELSE None
                   fractures == IF fracture_detector # None
                                THEN detect_fractures(fracture_detector, boxes, img, center)
                                ELSE EmptyDict
               IN  /\ sessions' = Put(sessions, session_id,
                           [xray_image |-> img, model_mesh |-> model_mesh,
                            original_model_path |-> default_model_path,
                            landmarks |-> None, fractures |-> fractures,
                            model_path |-> default_model_path,
                            fractured_mesh |-> Absent])
                   /\ resp' = [NoResp EXCEPT !.op = "upload_xray", !.status = 200,
                                             !.session_id = session_id]
    /\ UNCHANGED <<meshVars, fracture_detector, default_model, temp_files>>

\* POST /upload/model with a session_id (or None) and a file holding a mesh.
\* An unknown session_id is not registered, and the store into it raises
\* KeyError: 500.
UploadModel ==
    /\ \E sid \in SessionIds \cup {NoId}, content \in {UploadedMesh, EmptyMesh} :
          /\ sid = NoId => \/ Cardinality(DOMAIN sessions) < MaxSessions
                           \/ Cardinality(DOMAIN sessions) \in DOMAIN sessions
          /\ LET session_id == IF sid = NoId THEN Cardinality(DOMAIN sessions) ELSE sid
                  ss == IF sid = NoId
                        THEN Put(sessions, session_id,
                                 [EmptySession EXCEPT !.xray_image = None,
                                     !.model_mesh = None, !.landmarks = None,
                                     !.fractures = None])
                        ELSE sessions
              IN  IF session_id \notin DOMAIN ss
                  THEN /\ resp' = [NoResp EXCEPT !.op = "upload_model", !.status = 500,
                                                 !.session_id = session_id]
                       /\ UNCHANGED sessions
                  ELSE /\ sessions' =
                            [ss EXCEPT ![session_id] =
                                [@ EXCEPT !.model_mesh = IF has_vertices(content)
                                                         THEN content ELSE @,
                                          !.original_model_path =
                                              [path |-> "original_model.glb"]]]
                       /\ resp' = [NoResp EXCEPT !.op = "upload_model", !.status = 200,
                                                 !.session_id = session_id]
    /\ UNCHANGED <<meshVars, fracture_detector, default_model, temp_files>>

\* POST /process/landmarks. The HTTPException(404) and HTTPException(400)
\* are raised inside the try and re-raised by its except as 500.
ProcessLandmarks ==
    /\ \E session_id \in SessionIds, landmarks \in LandmarkRequests :
          IF session_id \notin DOMAIN sessions
          THEN /\ resp' = [NoResp EXCEPT !.op = "process_landmarks", !.status = 500,
                                         !.session_id = session_id]
               /\ UNCHANGED sessions
          ELSE IF Get(sessions[session_id], "xray_image") = None
          THEN /\ resp' = [NoResp EXCEPT !.op = "process_landmarks", !.status = 500,
                                         !.session_id = session_id]
               /\ UNCHANGED sessions
          ELSE \E r \in {process_landmarks(sessions[session_id], landmarks)},
                  groq \in Groq :
                   /\ sessions' = [sessions EXCEPT ![session_id] = r.session]
                   /\ resp' = [NoResp EXCEPT !.op = "process_landmarks", !.status = 200,
                                             !.session_id = session_id,
                                             !.fractures = r.fractures,
                                             !.deformed = r.deformed,
                                             !.groq = IF r.fractures = <<>> THEN None
                                                      ELSE groq,
                                             !.body = response(r.fractures,
                                                 get_medical_analysis(r.fractures, groq),
                                                 fracture_detector)]
    /\ UNCHANGED <<meshVars, fracture_detector, default_model, temp_files>>

\* GET /model/{session_id}/fractured. served is the mesh in the file sent.
GetFracturedModel ==
    /\ \E session_id \in SessionIds :
          /\ session_id \notin DOMAIN sessions => Cardinality(DOMAIN sessions) < MaxSessions
          /\ LET ss == IF session_id \in DOMAIN sessions THEN sessions
                        ELSE Put(sessions, session_id, EmptySession)
                  session == ss[session_id]
                  model_path == Get(session, "model_path")
                  held == Get(session, "model_mesh")
                  out == IF held = None THEN Cylinder ELSE held
              IN  IF Get(session, "fractured_mesh") # None
                  THEN /\ sessions' = ss
                       /\ temp_files' = temp_files
                       /\ resp' = [NoResp EXCEPT !.op = "get_fractured_model",
                                       !.status = 200, !.session_id = session_id,
                                       !.served = session.fractured_mesh]
                  ELSE IF model_path # None
                  THEN /\ sessions' = ss
                       /\ temp_files' = temp_files
                       /\ resp' = [NoResp EXCEPT !.op = "get_fractured_model",
                                       !.status = 200, !.session_id = session_id,
                                       !.served = IF model_path = [path |-> "forearm_Bones.glb"]
                                                  THEN default_model
                                                  ELSE temp_files[session_id]]
                  ELSE /\ sessions' = [ss EXCEPT ![session_id].model_path =
                                                        [path |-> "temp_model.glb"]]
                       /\ temp_files' = Put(temp_files, session_id, out)
                       /\ resp' = [NoResp EXCEPT !.op = "get_fractured_model",
                                       !.status = 200, !.session_id = session_id,
                                       !.served = out]
    /\ UNCHANGED <<meshVars, fracture_detector, default_model>>

\* GET /session/{session_id}
GetSession ==
    /\ \E session_id \in SessionIds :
          resp' = [NoResp EXCEPT !.op = "get_session", !.session_id = session_id,
                                 !.status = get_session(sessions, session_id).status,
                                 !.body = get_session(sessions, session_id)]
    /\ UNCHANGED <<meshVars, sessions, fracture_detector, default_model, temp_files>>

Next ==
    \/ UploadXray
    \/ UploadModel
    \/ ProcessLandmarks
    \/ GetFracturedModel
    \/ GetSession

Spec == Init /\ [][Next]_vars

\* create_angle_mesh and the server's requests side by side
FrameInit == Init \/ MeshInit

FrameNext == MeshNext \/ (pc = "idle" /\ Next)

FrameSpec == FrameInit /\ [][FrameNext]_vars

\* ================================================================ claims
Count(seq, x) == Cardinality({k \in DOMAIN seq : seq[k] = x})

Range(seq) == {seq[k] : k \in DOMAIN seq}

\* the call has returned a mesh
Done == pc = "done" /\ ~call.raised

\* the 0-based indices a mask selects, and the k-th smallest of them (k from 0)
Selected(mask) == {i \in 0..(Len(mask) - 1) : mask[i + 1]}

Kth(S, k) == CHOOSE i \in S : Cardinality({j \in S : j < i}) = k

AllIn(t, S) == t[1] \in S /\ t[2] \in S /\ t[3] \in S

ValidIn(t, n) == \A c \in 1..3 : t[c] \in 0..(n - 1)

\* the input vertex i lies on or above the split plane
\* min_y + (max_y - min_y) * n / d
Above(i) ==
    LET ys == [k \in DOMAIN mesh.vertices |-> mesh.vertices[k][2]]
    IN  split_ratio.d * mesh.vertices[i + 1][2] >=
            split_ratio.d * SeqMin(ys) + (SeqMax(ys) - SeqMin(ys)) * split_ratio.n

AboveSet == {i \in 0..(Len(mesh.vertices) - 1) : Above(i)}

BelowSet == {i \in 0..(Len(mesh.vertices) - 1) : ~Above(i)}

\* the input triangles that lie on one side of the plane
OneSided == SelectSeq(mesh.triangles,
                      LAMBDA t : AllIn(t, AboveSet) \/ AllIn(t, BelowSet))

RatioIs(k) == split_ratio.n = k * split_ratio.d

\* the triangles of the sub-mesh sub, named by the input's indices, are the
\* input triangles that have all three vertices in S, as often as the input
\* holds them, and no other
SubTriangles(sub, S) ==
    /\ \A k \in DOMAIN sub.triangles : ValidIn(sub.triangles[k], Cardinality(S))
    /\ LET back == [k \in DOMAIN sub.triangles |->
                       <<Kth(S, sub.triangles[k][1]), Kth(S, sub.triangles[k][2]),
                         Kth(S, sub.triangles[k][3])>>]
       IN  \A t \in Range(mesh.triangles) \cup Range(back) :
               Count(back, t) = IF AllIn(t, S) THEN Count(mesh.triangles, t) ELSE 0

\* C1: when both bones have a break point and both landmarks and the session
\* has a loaded mesh, the deformed mesh held after the analysis takes in the
\* deformation of both bones: both were applied in the call.
C1_BothBonesDeformed ==
    (/\ resp.op = "process_landmarks"
     /\ resp.status = 200
     /\ {resp.fractures[k].bone : k \in DOMAIN resp.fractures} = {"ulna", "radius"}
     /\ Get(sessions[resp.session_id], "model_mesh") # None)
    => Range(resp.deformed) = {"ulna", "radius"}

\* the deformations the measurements of the last call make of the model mesh
CallMeshes ==
    {create_angle_mesh(sessions[resp.session_id].model_mesh,
                       <<resp.fractures[k].top_angle, resp.fractures[k].bottom_angle>>,
                       resp.fractures[k].location).mesh : k \in DOMAIN resp.fractures}

\* C2: after a process_landmarks call that measured at least one bone, on a
\* session with a loaded mesh, the deformed mesh the session holds is one this
\* call produced, never a mesh left by an earlier call.
C2_HeldMeshIsLatest ==
    (/\ resp.op = "process_landmarks"
     /\ resp.status = 200
     /\ resp.fractures # <<>>
     /\ Get(sessions[resp.session_id], "model_mesh") # None)
    => /\ resp.deformed # <<>>
       /\ sessions[resp.session_id].fractured_mesh \in CallMeshes

\* C3: an input triangle is in the top (bottom) sub-mesh iff all three of its
\* vertices are in the top (bottom) vertex set; a triangle with vertices on
\* both sides is in neither; no triangle is duplicated or created.
C3_TrianglesFollowVertices ==
    Done =>
        /\ SubTriangles(call.top, Selected(call.top_mask))
        /\ SubTriangles(call.bottom, Selected(call.bottom_mask))
        /\ Len(call.mesh.triangles) = Len(OneSided)

C3_Witness ==
    /\ Done
    /\ \E k \in DOMAIN mesh.triangles :
          ~AllIn(mesh.triangles[k], AboveSet) /\ ~AllIn(mesh.triangles[k], BelowSet)
    /\ call.mesh.triangles = <<>>

\* C4: every triangle index of the returned mesh is a valid index into the
\* returned vertices (top vertices, then bottom vertices; bottom triangles
\* offset by the number of top vertices): none is -1, and no triangle
\* references a vertex of the other half.
C4_IndicesValid ==
    Done =>
        LET nt == Len(call.top.vertices)
            kt == Len(call.top.triangles)
        IN  /\ call.mesh.vertices = call.top.vertices \o call.bottom.vertices
            /\ Len(call.mesh.triangles) = kt + Len(call.bottom.triangles)
            /\ \A k \in DOMAIN call.mesh.triangles : \A c \in 1..3 :
                  LET ix == call.mesh.triangles[k][c]
                  IN  /\ ix \in 0..(Len(call.mesh.vertices) - 1)
                      /\ k <= kt => ix < nt
                      /\ k > kt => /\ ix >= nt
                                   /\ ix - nt = call.bottom.triangles[k - kt][c]

C4_Witness ==
    /\ Done
    /\ Len(call.top.vertices) > 0
    /\ Len(call.bottom.triangles) > 0

\* C5: for a non-empty mesh and a split ratio in [0, 1] the returned mesh has
\* no more vertices and no more triangles than the input.
C5_CountsDoNotGrow ==
    (/\ pc = "done"
     /\ Len(mesh.vertices) > 0
     /\ 0 <= split_ratio.n /\ split_ratio.n <= split_ratio.d)
    => /\ ~call.raised
       /\ Len(call.mesh.vertices) <= Len(mesh.vertices)
       /\ Len(call.mesh.triangles) <= Len(mesh.triangles)

C5_Witness ==
    /\ Done
    /\ 0 < split_ratio.n /\ split_ratio.n < split_ratio.d
    /\ Len(call.mesh.vertices) = Len(mesh.vertices)
    /\ Len(call.mesh.triangles) < Len(mesh.triangles)

\* the position of input vertex i, and of the corners of a triangle
InPos(i) == Frac(mesh.vertices[i + 1][1], mesh.vertices[i + 1][2],
                 mesh.vertices[i + 1][3], 1)

InCorners(t) == <<InPos(t[1]), InPos(t[2]), InPos(t[3])>>

OutCorners(t) == <<call.mesh.vertices[t[1] + 1], call.mesh.vertices[t[2] + 1],
                   call.mesh.vertices[t[3] + 1]>>

C7_SinglePartitionAtBothEnds ==
    (pc = "done" /\ Len(mesh.vertices) > 0 /\ (RatioIs(0) \/ RatioIs(1)))
    => /\ ~call.raised
       /\ Len(call.top.vertices) = 0 \/ Len(call.bottom.vertices) = 0
       /\ Len(call.mesh.triangles) = Len(mesh.triangles)

\* the input vertices at the greatest height
AtMax == {i \in 0..(Len(mesh.vertices) - 1) :
             \A j \in DOMAIN mesh.vertices : mesh.vertices[j][2] <= mesh.vertices[i + 1][2]}

\* C7 amended: neither end ratio raises; ratio 0 leaves the bottom partition
\* empty and keeps every triangle; ratio 1 puts exactly the vertices of
\* greatest height in the top partition and the others in the bottom one, and
\* keeps exactly the triangles that do not have corners in both.
C7_EndRatios ==
    (pc = "done" /\ Len(mesh.vertices) > 0 /\ (RatioIs(0) \/ RatioIs(1)))
    => /\ ~call.raised
       /\ RatioIs(0) => /\ Len(call.bottom.vertices) = 0
                        /\ Len(call.top.vertices) = Len(mesh.vertices)
                        /\ Len(call.mesh.triangles) = Len(mesh.triangles)
       /\ RatioIs(1) => /\ Len(call.top.vertices) = Cardinality(AtMax)
                        /\ Len(call.bottom.vertices) =
                               Len(mesh.vertices) - Cardinality(AtMax)
                        /\ Len(call.mesh.triangles) =
                               Cardinality({k \in DOMAIN mesh.triangles :
                                   \/ AllIn(mesh.triangles[k], AtMax)
                                   \/ \A c \in 1..3 : mesh.triangles[k][c] \notin AtMax})

C7_Witness ==
    /\ Done
    /\ RatioIs(1)
    /\ Len(call.top.vertices) > 0
    /\ Len(call.bottom.vertices) > 0
    /\ Len(call.mesh.triangles) < Len(mesh.triangles)

\* C8: applied to a mesh with no vertices and no triangles, create_angle_mesh
\* returns an empty mesh and does not raise.
C8_EmptyMeshReturnsEmpty ==
    (pc = "done" /\ mesh = EmptyMesh) => (~call.raised /\ call.mesh = EmptyMesh)

\* C9: create_angle_mesh leaves its input mesh as it was, and process_landmarks
\* leaves the model_mesh of every session as it was.
C9_InputsNotMutated ==
    [][/\ (pc = "call" /\ pc' = "done") => mesh' = mesh
       /\ resp'.op = "process_landmarks" =>
              \A id \in DOMAIN sessions :
                  sessions'[id].model_mesh = sessions[id].model_mesh]_vars

C9_Witness ==
    /\ resp.op = "process_landmarks"
    /\ resp.deformed # <<>>
    /\ sessions[resp.session_id].model_mesh = DefaultMesh
    /\ sessions[resp.session_id].fractured_mesh # Absent
    /\ sessions[resp.session_id].fractured_mesh.vertices #
           [k \in DOMAIN DefaultMesh.vertices |->
               Frac(DefaultMesh.vertices[k][1], DefaultMesh.vertices[k][2],
                    DefaultMesh.vertices[k][3], 1)]

\* C10: the split plane is at mid = min_y + (max_y - min_y) * split_ratio;
\* a vertex is in the top partition iff its y is >= mid and in the bottom
\* partition otherwise, so the partitions are disjoint and cover the input.
C10_PlaneAndPartition ==
    Done =>
        LET ys == [k \in DOMAIN mesh.vertices |-> mesh.vertices[k][2]]
        IN  /\ call.mid_y.d = split_ratio.d
            /\ call.mid_y.n = split_ratio.d * SeqMin(ys)
                                + (SeqMax(ys) - SeqMin(ys)) * split_ratio.n
            /\ \A i \in 0..(Len(mesh.vertices) - 1) :
                  /\ call.top_mask[i + 1] <=> Above(i)
                  /\ call.bottom_mask[i + 1] <=> ~Above(i)
            /\ Len(call.top.vertices) = Cardinality(AboveSet)
            /\ Len(call.bottom.vertices) = Cardinality(BelowSet)

C10_Witness ==
    /\ Done
    /\ 0 < split_ratio.n /\ split_ratio.n < split_ratio.d
    /\ \E i \in AboveSet : split_ratio.d * mesh.vertices[i + 1][2] = call.mid_y.n
    /\ BelowSet # {}

\* ------------------------------------------------ the scalar functions
\* the call fn has returned
Returned(fn) == pc = "returned" /\ call.fn = fn

\* two ratios n / d are the same number
RatioEq(a, b) == a.d # 0 /\ b.d # 0 /\ a.n * b.d = b.n * a.d

\* C11: get_relative_position gives the same value when head and tail are
\* swapped: get_relative_position(A, B, F) = get_relative_position(B, A, F).
C11_SwapInvariant ==
    Returned("get_relative_position") =>
        RatioEq(call.result,
                get_relative_position(call.tail, call.head, call.fracture))

C11_Witness ==
    /\ Returned("get_relative_position")
    /\ call.head[2] < call.tail[2]
    /\ call.fracture[2] # call.head[2]
    /\ call.fracture[2] # call.tail[2]

\* C12: for head.y # tail.y and fracture.y the midpoint of head.y and
\* tail.y, get_relative_position returns exactly 1/2.
C12_MidpointIsHalf ==
    (/\ Returned("get_relative_position")
     /\ call.head[2] # call.tail[2]
     /\ 2 * call.fracture[2] = call.head[2] + call.tail[2])
    => RatioEq(call.result, [n |-> 1, d |-> 2])

C12_Witness ==
    /\ Returned("get_relative_position")
    /\ call.head[2] < call.tail[2]
    /\ 2 * call.fracture[2] = call.head[2] + call.tail[2]
    /\ RatioEq(call.result, [n |-> 1, d |-> 2])

\* C13: for head.y = tail.y get_relative_position returns 0 for every
\* fracture point, without dividing by zero.
C13_ZeroHeightIsZero ==
    (Returned("get_relative_position") /\ call.head[2] = call.tail[2])
    => RatioEq(call.result, [n |-> 0, d |-> 1])

C13_Witness ==
    /\ Returned("get_relative_position")
    /\ call.head[2] = call.tail[2]
    /\ call.fracture[2] # call.head[2]
    /\ call.result.n = 0

\* C14: for all head, tail and fracture the value get_relative_position
\* returns lies in [0, 1].
C14_RatioInUnitInterval ==
    Returned("get_relative_position") =>
        (call.result.d > 0 /\ 0 <= call.result.n /\ call.result.n <= call.result.d)

\* C15: every split ratio process_landmarks hands to create_angle_mesh is
\* in [0, 1]. The ratio handed over for a bone is the location of its
\* fracture result.
C15_PassedRatioClamped ==
    resp.op = "process_landmarks" =>
        \A k \in DOMAIN resp.fractures :
            resp.fractures[k].bone \in Range(resp.deformed) =>
                /\ resp.fractures[k].location.d > 0
                /\ 0 <= resp.fractures[k].location.n
                /\ resp.fractures[k].location.n <= resp.fractures[k].location.d

\* a call of angle_from_negative_x has returned, for two points or for the
\* direction of p2 - p1 in whole degrees
AngleCall ==
    pc = "returned" /\ call.fn \in {"angle_from_negative_x", "angle_from_degrees"}

ByPoints == call.fn = "angle_from_negative_x"

\* p1 # p2
Distinct == ByPoints => call.p1 # call.p2

\* the direction of p2 - p1 in degrees in [0, 360)
Raw ==
    IF ByPoints
    THEN atan2_deg(call.p2[2] - call.p1[2], call.p2[1] - call.p1[1]) % 360
    ELSE call.degrees % 360

\* C16 as stated: for p1 # p2 the angle is in (-90, 90].
C16_HalfOpenRange ==
    (AngleCall /\ Distinct) => (-90 < call.result /\ call.result <= 90)

\* C16 amended: for p1 # p2 the angle is in [-90, 90], and it is -90 exactly
\* when p2 - p1 points along the negative x axis.
C16_ClosedRange ==
    (AngleCall /\ Distinct) =>
        /\ -90 <= call.result
        /\ call.result <= 90
        /\ call.result = -90 <=> Raw = 180

C16_Witness == AngleCall /\ ByPoints /\ Distinct /\ call.result = -90

\* the fold as the claim words it
RefFold(rel) ==
    CASE rel <= 90                -> -(90 - rel)
      [] 90 < rel /\ rel <= 180   -> rel - 90
      [] 180 < rel /\ rel <= 270  -> 270 - rel
      [] rel > 270                -> 360 - rel

\* C17: angle_from_negative_x is the reference fold of
\* rel = (raw - 180) mod 360, raw the direction of p2 - p1 in [0, 360), and
\* does not depend on center.
C17_ReferenceFold ==
    AngleCall =>
        /\ call.result = RefFold((Raw - 180) % 360)
        /\ ByPoints => call.result = angle_from_negative_x(call.p1, call.p2, <<0, 0>>)

C17_Witness ==
    /\ AngleCall
    /\ ByPoints
    /\ call.center # <<0, 0>>
    /\ (Raw - 180) % 360 > 270
    /\ call.result = 45

\* the angle of the swapped call: p2 to p1, the opposite direction
Reverse(degrees) == IF degrees > 0 THEN degrees - 180 ELSE degrees + 180

Swapped ==
    IF ByPoints THEN angle_from_negative_x(call.p2, call.p1, call.center)
    ELSE angle_from_degrees(Reverse(call.degrees))

\* C18 as stated: for p1 # p2,
\* angle_from_negative_x(p2, p1) = -angle_from_negative_x(p1, p2).
C18_AntiSymmetric ==
    (AngleCall /\ Distinct) => Swapped = -call.result

\* C18 amended: for p1 # p2, the swap negates the angle when the direction
\* of p2 - p1 is in [0, 90] or [180, 270] degrees; for every other direction
\* both angles are positive and add up to 90.
C18_SwapRelation ==
    (AngleCall /\ Distinct) =>
        IF Raw <= 90 \/ (180 <= Raw /\ Raw <= 270)
        THEN Swapped = -call.result
        ELSE call.result > 0 /\ Swapped > 0 /\ call.result + Swapped = 90

C18_Witness ==
    /\ AngleCall
    /\ ByPoints
    /\ Distinct
    /\ Raw = 135
    /\ call.result = 45
    /\ Swapped = 45

\* the angle of the mirror image of the direction about the x axis
Mirrored ==
    IF ByPoints
    THEN angle_from_negative_x(call.p1,
                               <<call.p2[1], 2 * call.p1[2] - call.p2[2]>>,
                               call.center)
    ELSE angle_from_degrees(-call.degrees)

\* C19: a direction off the reference axis and its mirror image about the
\* axis give angles of equal magnitude and opposite sign.
C19_MirrorOppositeSign ==
    (AngleCall /\ Raw # 0 /\ Raw # 180) => Mirrored = -call.result

C21_EightIsModerate ==
    (/\ Returned("calculate_severity")
     /\ Abs(call.top_angle) <= 8
     /\ Abs(call.bottom_angle) <= 8
     /\ (Abs(call.top_angle) = 8 \/ Abs(call.bottom_angle) = 8))
    => call.result = "moderate"

\* the box's centre x is left of the image centre x
Left(box, cx) == box[1] + box[3] < 2 * cx

BreakKeys == {"ulna_break", "radius_break"}

\* the detection ran: a loaded network that returned boxes
Detected ==
    /\ Returned("detect_fractures")
    /\ call.detector.model # None
    /\ call.results # [raises |-> TRUE]

\* the keys stand for the sides the boxes lie on
SidesOf(breaks, boxes, cx) ==
    /\ DOMAIN breaks \subseteq BreakKeys
    /\ "radius_break" \in DOMAIN breaks <=> \E k \in DOMAIN boxes : Left(boxes[k], cx)
    /\ "ulna_break" \in DOMAIN breaks <=> \E k \in DOMAIN boxes : ~Left(boxes[k], cx)

\* C23: the break points the detector produces have keys in {ulna_break,
\* radius_break} only; a box centred left of the image centre gives
\* radius_break, any other box ulna_break.
C23_KeysBySide ==
    /\ Returned("detect_fractures") => DOMAIN call.result \subseteq BreakKeys
    /\ Detected =>
          /\ SidesOf(call.result, call.results.boxes, call.center[1])
          /\ SidesOf(final_manager_breaks(call.results.boxes, call.center[1],
                                          call.center[2], EmptyDict),
                     call.results.boxes, call.center[1])

C23_Witness ==
    /\ Detected
    /\ call.results.boxes = <<CentreBox, HalfBox>>
    /\ DOMAIN call.result = BreakKeys

\* C24: the copies of get_split_ratio / get_relative_position and of
\* angle_from_negative_x in backend/deformed.py and final_manager_code
\* return what those of backend_v2 return, on every input.
C24_CopiesAgree ==
    /\ Returned("get_relative_position") =>
          /\ deformed_get_split_ratio(call.head, call.tail, call.fracture) = call.result
          /\ final_manager_get_relative_position(call.head, call.tail, call.fracture)
                 = call.result
          /\ get_split_ratio(call.head, call.tail, call.fracture) = call.result
    /\ Returned("angle_from_negative_x") =>
          /\ deformed_angle_from_negative_x(call.p1, call.p2, call.center) = call.result
          /\ final_manager_angle_from_negative_x(call.p1, call.p2, call.center)
                 = call.result

C24_Witness ==
    /\ Returned("angle_from_negative_x")
    /\ call.center # <<0, 0>>
    /\ call.p1 # call.p2
    /\ call.result = -45

\* C29: the inline severity rule of backend/deformed.py returns the class
\* calculate_severity returns, for all angle pairs.
C29_SeverityRulesAgree ==
    Returned("calculate_severity") =>
        deformed_severity(call.top_angle, call.bottom_angle) = call.result

C29_Witness ==
    /\ Returned("calculate_severity")
    /\ call.top_angle = 7
    /\ call.bottom_angle = -16
    /\ call.result = "severe"

\* ------------------------------------------------------ the server again
\* the session of the last request
Sess == sessions[resp.session_id]

\* the last request was a process_landmarks that returned its analysis
Processed == resp.op = "process_landmarks" /\ resp.status = 200

\* the session holds the break point and both landmarks of the bone
Complete(bone) == has_bone(bone, Sess.fractures, Sess.landmarks)

BonesOf(fracture_results) == {fracture_results[k].bone : k \in DOMAIN fracture_results}

GroqFails(groq) ==
    \/ ~groq.api_key
    \/ "raises" \in DOMAIN groq
    \/ groq.text = "I cannot help with that."

\* C25: with the language model absent or failing, analyze_fracture_risk
\* returns None and the response carries the same fractures, confidence and
\* detected_bones, without medical_analysis.
C25_WorksWithoutCollaborator ==
    (Processed /\ resp.fractures # <<>> /\ GroqFails(resp.groq)) =>
        /\ analyze_fracture_risk(resp.fractures, resp.groq) = None
        /\ resp.body = [fractures |-> resp.fractures,
                        confidence |-> IF fracture_detector # None
                                          /\ fracture_detector.model # None
                                       THEN 92 ELSE 75,
                        detected_bones |->
                            [k \in DOMAIN resp.fractures |-> resp.fractures[k].bone]]

C25_Witness ==
    /\ Processed
    /\ Len(resp.fractures) = 2
    /\ resp.groq = [api_key |-> TRUE, text |-> "I cannot help with that."]
    /\ resp.body.detected_bones = <<"ulna", "radius">>
    /\ resp.body.confidence = 92

\* C26: process_landmarks answers 404 for a session_id not in sessions and
\* 400 for a session without an X-ray image.
C26_NotFoundAndBadRequest ==
    resp.op = "process_landmarks" =>
        /\ resp.session_id \notin DOMAIN sessions => resp.status = 404
        /\ (/\ resp.session_id \in DOMAIN sessions
            /\ Get(Sess, "xray_image") = None) => resp.status = 400

\* C27: a session created by upload_xray, or by upload_model without a
\* session_id, is stored under an id that was not a key of sessions: no
\* existing session's data is overwritten.
C27_FreshSessionId ==
    [][/\ (resp'.op = "upload_xray" /\ resp'.status = 200)
             => resp'.session_id \notin DOMAIN sessions
       /\ (/\ resp'.op = "upload_model"
           /\ resp'.status = 200
           /\ resp'.session_id \in DOMAIN sessions)
             => sessions'[resp'.session_id].xray_image
                    = sessions[resp'.session_id].xray_image]_vars

\* the fixed fallback points
FallbackPoints ==
    [k \in {"ulna_break", "radius_break"} |->
        IF k = "ulna_break" THEN <<50, 100>> ELSE <<-30, 80>>]

\* C28: process_landmarks on a session without break points (None or
\* empty) uses and stores the fallback points; after a successful
\* process_landmarks the session's fractures are not empty, a later
\* process_landmarks finds and keeps them, and the measurements are taken
\* from them.
C28_FallbackStoredAndKept ==
    [][/\ (resp'.op = "process_landmarks" /\ resp'.status = 200) =>
             /\ sessions'[resp'.session_id].fractures \notin {Absent, None, EmptyDict}
             /\ IF Get(sessions[resp'.session_id], "fractures") \in {None, EmptyDict}
                THEN sessions'[resp'.session_id].fractures = FallbackPoints
                ELSE sessions'[resp'.session_id].fractures
                         = sessions[resp'.session_id].fractures
             /\ \A k \in DOMAIN resp'.fractures :
                    resp'.fractures[k] =
                        fracture_result(resp'.fractures[k].bone,
                                        sessions'[resp'.session_id].fractures,
                                        sessions'[resp'.session_id].landmarks)
       /\ resp'.op \in {"get_fractured_model", "get_session"} =>
             \A id \in DOMAIN sessions :
                 sessions'[id].fractures = sessions[id].fractures]_vars

C28_Witness ==
    /\ Processed
    /\ fracture_detector = None
    /\ Sess.fractures = FallbackPoints
    /\ Get(Sess, "model_mesh") # None
    /\ Sess.fractured_mesh # Absent
    /\ resp.deformed = <<>>
    /\ BonesOf(resp.fractures) = {"radius"}

\* C30: get_fractured_model never answers "session not found": an unknown
\* id is registered as an empty session and served the placeholder mesh,
\* after which get_session answers 200 with every flag false and
\* fracture_count 0; a session that holds a fractured mesh is served it.
C30_FracturedModelAlwaysServed ==
    [][resp'.op = "get_fractured_model" =>
          /\ resp'.status = 200
          /\ resp'.session_id \in DOMAIN sessions'
          /\ resp'.session_id \notin DOMAIN sessions =>
                /\ resp'.served = Cylinder
                /\ get_session(sessions', resp'.session_id) =
                       [status |-> 200, has_xray |-> FALSE, has_model |-> FALSE,
                        has_landmarks |-> FALSE, has_fractures |-> FALSE,
                        fracture_count |-> 0]
          /\ (/\ resp'.session_id \in DOMAIN sessions
              /\ Get(sessions[resp'.session_id], "fractured_mesh") # None) =>
                resp'.served = sessions[resp'.session_id].fractured_mesh]_vars

C30_Witness ==
    /\ resp.op = "get_session"
    /\ resp.status = 200
    /\ Sess.xray_image = Absent
    /\ Sess.model_path # Absent
    /\ resp.body.fracture_count = 0
    /\ ~resp.body.has_xray

====
